---- MODULE Spec2Model ----
(***************************************************************************)
(* Model of src/src/petunia/mkIcmp.py: a script that reads the ICMP help   *)
(* text of iptables, probes every type and code name through the FORWARD   *)
(* chain (flush, append, list), and writes a Python table to stdout.       *)
(*                                                                         *)
(* Text is modelled as a sequence of one-character strings, so that the    *)
(* find / slice / strip / int steps of the script are computed as Python   *)
(* computes them.  Indexes are 0-based wherever the script does index      *)
(* arithmetic.                                                             *)
(***************************************************************************)
EXTENDS Integers, Sequences, FiniteSets

VARIABLES pc, buf, lines, i, curTypeName, curTypeVal, alias, probeArg, mode,
          typeByName, codeTypeByName, chain, log, out, types, codes, k, err

vars == <<pc, buf, lines, i, curTypeName, curTypeVal, alias, probeArg, mode,
          typeByName, codeTypeByName, chain, log, out, types, codes, k, err>>

(* ------------------------------ bounds --------------------------------- *)
MaxLines == 3
MaxType == 2
CodeVals == {0, 1}

(* --------------------------- python strings ---------------------------- *)
None == <<"None">>

\* an int or None, as a sequence of at most one number
NoInt == <<>>
Some(n) == <<n>>

Whitespace == {" ", "\t", "\n"}

DigitChars == <<"0", "1", "2", "3", "4", "5", "6", "7", "8", "9">>

LowerOrHyphen ==
  {"a", "b", "c", "d", "e", "f", "g", "h", "i", "j", "k", "l", "m", "n",
   "o", "p", "q", "r", "s", "t", "u", "v", "w", "x", "y", "z", "-"}

AsciiOrder ==
  <<"\t", "\n", " ", "(", ")", "+", "-",
    "0", "1", "2", "3", "4", "5", "6", "7", "8", "9", "_",
    "a", "b", "c", "d", "e", "f", "g", "h", "i", "j", "k", "l", "m", "n",
    "o", "p", "q", "r", "s", "t", "u", "v", "w", "x", "y", "z">>

Ord(c) == CHOOSE n \in 1..Len(AsciiOrder) : AsciiOrder[n] = c

Max(a, b) == IF a > b THEN a ELSE b
Min(a, b) == IF a < b THEN a ELSE b

\* normalisation of a slice / find bound, as CPython does it
PyIndex(n, len) == IF n < 0 THEN Max(n + len, 0) ELSE Min(n, len)

\* s[lo:hi]
PySlice(s, lo, hi) ==
  LET a == PyIndex(lo, Len(s))
      b == PyIndex(hi, Len(s))
  IN  IF a >= b THEN <<>> ELSE SubSeq(s, a + 1, b)

\* s[lo:]
PySliceFrom(s, lo) == PySlice(s, lo, Len(s))

\* s.find(sub, start): lowest 0-based index, -1 when absent
PyFind(s, sub, start) ==
  LET a == PyIndex(start, Len(s))
      hits == {p \in a..(Len(s) - Len(sub)) :
                 \A j \in 1..Len(sub) : s[p + j] = sub[j]}
  IN  IF hits = {} THEN -1
      ELSE CHOOSE p \in hits : \A r \in hits : p <= r

PyLStrip(s) ==
  LET keep == {p \in 1..Len(s) : s[p] \notin Whitespace}
  IN  IF keep = {} THEN <<>>
      ELSE SubSeq(s, CHOOSE p \in keep : \A r \in keep : p <= r, Len(s))

PyRStrip(s) ==
  LET keep == {p \in 1..Len(s) : s[p] \notin Whitespace}
  IN  IF keep = {} THEN <<>>
      ELSE SubSeq(s, 1, CHOOSE p \in keep : \A r \in keep : p >= r)

PyStrip(s) == PyRStrip(PyLStrip(s))

RECURSIVE PySplitLines(_)
\* s.splitlines(False)
PySplitLines(s) ==
  IF s = <<>> THEN <<>>
  ELSE LET q == PyFind(s, <<"\n">>, 0)
       IN  IF q = -1 THEN <<s>>
           ELSE <<PySlice(s, 0, q)>> \o PySplitLines(PySliceFrom(s, q + 1))

PyStartsWith(s, prefix) ==
  /\ Len(s) >= Len(prefix)
  /\ \A j \in 1..Len(prefix) : s[j] = prefix[j]

RECURSIVE DigitsValue(_)
DigitsValue(s) ==
  IF s = <<>> THEN 0
  ELSE 10 * DigitsValue(SubSeq(s, 1, Len(s) - 1))
       + ((CHOOSE d \in 1..10 : DigitChars[d] = s[Len(s)]) - 1)

\* int(s, 10): [ok |-> FALSE] stands for the ValueError it raises
PyInt(s) ==
  LET t == PyStrip(s)
      signed == t # <<>> /\ t[1] \in {"+", "-"}
      body == IF signed THEN Tail(t) ELSE t
      isDigit(c) == \E d \in 1..10 : DigitChars[d] = c
      wellFormed ==
        /\ body # <<>>
        /\ \A p \in 1..Len(body) : isDigit(body[p]) \/ body[p] = "_"
        /\ \A p \in 1..Len(body) :
             body[p] = "_" => /\ p > 1 /\ p < Len(body)
                              /\ isDigit(body[p - 1]) /\ isDigit(body[p + 1])
      digits == SelectSeq(body, isDigit)
      mag == DigitsValue(digits)
  IN  IF wellFormed
      THEN [ok |-> TRUE, v |-> IF signed /\ t[1] = "-" THEN 0 - mag ELSE mag]
      ELSE [ok |-> FALSE, v |-> 0]

RECURSIVE PyStr(_)
\* "%d" % n for n >= 0
PyStr(n) ==
  IF n < 10 THEN <<DigitChars[n + 1]>>
  ELSE PyStr(n \div 10) \o <<DigitChars[(n % 10) + 1]>>

\* a < b on str
StrLess(a, b) ==
  \E p \in 1..(Len(b)) :
     /\ \A j \in 1..(p - 1) : j <= Len(a) /\ a[j] = b[j]
     /\ \/ p = Len(a) + 1
        \/ p <= Len(a) /\ Ord(a[p]) < Ord(b[p])

\* ALIAS_RE.match(line) for ^([a-z-]+) [(](.*)[)]$
AliasMatch(line) ==
  LET stops == {p \in 1..Len(line) : line[p] \notin LowerOrHyphen}
      n == IF stops = {} THEN Len(line)
           ELSE (CHOOSE p \in stops : \A r \in stops : p <= r) - 1
      inner == SubSeq(line, n + 3, Len(line) - 1)
      matched ==
        /\ n >= 1
        /\ Len(line) >= n + 3
        /\ line[n + 1] = " "
        /\ line[n + 2] = "("
        /\ line[Len(line)] = ")"
        /\ \A p \in 1..Len(inner) : inner[p] # "\n"
  IN  IF matched
      THEN [matched |-> TRUE, name |-> SubSeq(line, 1, n), alias |-> inner]
      ELSE [matched |-> FALSE, name |-> line, alias |-> None]

(* ------------------------------ inputs --------------------------------- *)
Marker == <<"V", "a", "l", "i", "d", " ", "I", "C", "M", "P", " ",
            "T", "y", "p", "e", "s", ":", "\n">>

IcmpType == <<"i", "c", "m", "p", "t", "y", "p", "e", " ">>

CodeMark == <<"c", "o", "d", "e", " ">>

\* usage text that iptables prints before the marker
Usage == <<"u", "\n">>

HelpLines ==
  { <<"a">>, <<"b">>, <<"c">>, <<"a", " ", "(", "b", ")">>,
    <<" ", "x">>, <<" ", "y">> }

RECURSIVE Texts(_)
Texts(n) ==
  IF n = 0 THEN {<<>>}
  ELSE LET shorter == Texts(n - 1)
       IN  shorter \cup {t \o l \o <<"\n">> : t \in shorter, l \in HelpLines}

HelpTexts == Texts(MaxLines)

Spaces(n) == [j \in 1..n |-> " "]

Address == <<"0", ".", "0", ".", "0", ".", "0", "/", "0">>

\* the first line of iptables -nL FORWARD
ChainLine ==
  <<"C", "h", "a", "i", "n", " ", "F", "O", "R", "W", "A", "R", "D", " ">>
  \o <<"(", "p", "o", "l", "i", "c", "y", " ", "A", "C", "C", "E", "P", "T", ")">>
  \o <<"\n">>

\* the second line of iptables -nL FORWARD: the column titles
TitleLine ==
  <<"t", "a", "r", "g", "e", "t">> \o Spaces(5)
  \o <<"p", "r", "o", "t", " ", "o", "p", "t", " ">>
  \o <<"s", "o", "u", "r", "c", "e">> \o Spaces(15)
  \o <<"d", "e", "s", "t", "i", "n", "a", "t", "i", "o", "n">> \o Spaces(9)
  \o <<"\n">>

\* the target, prot, opt, source and destination columns that iptables -nL
\* prints before the match text of an icmp rule
RuleColumns ==
  Spaces(11) \o <<"1">> \o Spaces(4) \o <<"-", "-">> \o Spaces(2)
  \o Address \o Spaces(12) \o Address \o Spaces(12)

\* the match texts: what the tool prints for an icmp type, for a type with a
\* code, and what a tool that does not print the markers would leave of them

RuleTexts ==
  {RuleColumns \o IcmpType \o PyStr(t) : t \in 1..MaxType}
  \cup {RuleColumns \o IcmpType \o PyStr(t) \o <<" ">> \o CodeMark \o PyStr(c) :
          t \in 1..MaxType, c \in CodeVals}
  \cup {RuleColumns \o PyStr(MaxType)}
  \cup {RuleColumns \o PyStr(MaxType) \o <<" ">> \o CodeMark \o PyStr(0)}

StaleRule == [by |-> 0, text |-> RuleColumns \o IcmpType \o PyStr(9)]

(* --------------------------- the rule chain ---------------------------- *)
FlushChainKeeps(c) == c

\* iptables -F FORWARD
FlushChain(c) == <<>>

\* iptables -A FORWARD -p icmp --icmp-type <name>
AppendRule(c, rule) == Append(c, rule)

RECURSIVE RuleLines(_)
\* the rule lines of iptables -nL FORWARD
RuleLines(c) ==
  IF c = <<>> THEN <<>>
  ELSE c[1].text \o <<"\n">> \o RuleLines(Tail(c))

\* iptables -nL FORWARD: the two header lines, then one line per rule
ListingText(c) == ChainLine \o TitleLine \o RuleLines(c)

(* ------------------------------ probes --------------------------------- *)
\* the number after the last space of the listing
ExtractTypeLastWord(listing) ==
  LET sp == {p \in 1..Len(listing) : listing[p] = " "}
      last == IF sp = {} THEN 0 ELSE CHOOSE p \in sp : \A r \in sp : r <= p
  IN  PyInt(SubSeq(listing, last + 1, Len(listing)))

\* extractType, after the listing has been read
ExtractTypeParse(listing) ==
  LET p == PyFind(listing, IcmpType, 0)
      q == PyFind(listing, <<"\n">>, p)
  IN  PyInt(PySlice(listing, p + 9, q))

\* extractCode, after the listing has been read
ExtractCodeParse(listing) ==
  LET p == PyFind(listing, IcmpType, 0)
      q == PyFind(listing, <<" ">>, p + 9)
      type_ == PyInt(PySlice(listing, p + 9, q))
      p2 == PyFind(listing, CodeMark, q)
      q2 == PyFind(listing, <<"\n">>, p2)
      code == PyInt(PySlice(listing, p2 + 5, q2))
  IN  IF ~type_.ok THEN [ok |-> FALSE, t |-> 0, c |-> 0]
      ELSE IF ~code.ok THEN [ok |-> FALSE, t |-> 0, c |-> 0]
      ELSE [ok |-> TRUE, t |-> type_.v, c |-> code.v]

FirstProbeStepNoFlush == "append"

\* first command of extractType / extractCode
FirstProbeStep == "flush"

\* the % operator: a %d conversion applied to a str raises TypeError
PyFormatFails(convs, args) ==
  \E j \in 1..Len(convs) : convs[j] = "d" /\ args[j].kind # "int"

\* raise ValueError("invalid type %d for %s (expected %d)" % (t, codeName, curTypeName,))
MismatchRaise(t, codeName, typeName) ==
  IF PyFormatFails(<<"d", "s", "d">>,
                   <<[kind |-> "int", v |-> t],
                     [kind |-> "str", v |-> codeName],
                     [kind |-> "str", v |-> typeName]>>)
  THEN "TypeError"
  ELSE "ValueError:mismatch"

(* ------------------------------ tables --------------------------------- *)
EmptyDict == [n \in {} |-> 0]

DictSet(d, key, val) ==
  [n \in DOMAIN d \cup {key} |-> IF n = key THEN val ELSE d[n]]

RecordTypeNoAlias(d, name, al, n) == DictSet(d, name, n)

\* typeByName[curTypeName] = n; if alias is not None: typeByName[alias] = n
RecordType(d, name, al, n) ==
  IF al # None THEN DictSet(DictSet(d, name, n), al, n)
  ELSE DictSet(d, name, n)

TypeLess(a, b) == a[1] < b[1] \/ (a[1] = b[1] /\ StrLess(a[2], b[2]))

CodeLess(a, b) ==
  \/ a[1] < b[1]
  \/ a[1] = b[1] /\ a[2] < b[2]
  \/ a[1] = b[1] /\ a[2] = b[2] /\ StrLess(a[3], b[3])

RECURSIVE SortTypes(_)
SortTypes(S) ==
  IF S = {} THEN <<>>
  ELSE LET m == CHOOSE x \in S : \A y \in S \ {x} : TypeLess(x, y)
       IN  <<m>> \o SortTypes(S \ {m})

RECURSIVE SortCodes(_)
SortCodes(S) ==
  IF S = {} THEN <<>>
  ELSE LET m == CHOOSE x \in S : \A y \in S \ {x} : CodeLess(x, y)
       IN  <<m>> \o SortCodes(S \ {m})

\* types = [(typeVal, typeName) ...]; types.sort()
BuildTypes(d) == SortTypes({<<d[n], n>> : n \in DOMAIN d})

\* codes = [(typeVal, codeVal, codeName) ...]; codes.sort()
BuildCodes(d) == SortCodes({<<d[n][1], d[n][2], n>> : n \in DOMAIN d})

TakeTypeStrict(typeVal, codeTypeVal) == typeVal < codeTypeVal

\* if types[0][0] <= codes[0][0]
TakeType(typeVal, codeTypeVal) == typeVal <= codeTypeVal

RestSkipsOne(s) == IF Len(s) > 1 THEN Tail(Tail(s)) ELSE <<>>

\* what is left of a list after pop(0)
Rest(s) == Tail(s)

HeaderLines ==
  << [kind |-> "comment", name |-> <<>>, t |-> 0, c |-> 0],
     [kind |-> "generated", name |-> <<>>, t |-> 0, c |-> 0],
     [kind |-> "init_type", name |-> <<>>, t |-> 0, c |-> 0],
     [kind |-> "init_code", name |-> <<>>, t |-> 0, c |-> 0] >>

TypeLine(e) == [kind |-> "type", name |-> e[2], t |-> e[1], c |-> 0]

CodeLine(e) == [kind |-> "code", name |-> e[3], t |-> e[1], c |-> e[2]]

LoopFinishedEarly(n, ls) == n >= Len(ls)

\* the for loop over the lines has run out
LoopFinished(n, ls) == n > Len(ls)

(* ------------------------------ actions -------------------------------- *)
Init ==
  /\ pc = "start"
  /\ buf = <<>>
  /\ lines = <<>>
  /\ i = 1
  /\ curTypeName = None
  /\ curTypeVal = NoInt
  /\ alias = None
  /\ probeArg = None
  /\ mode = "none"
  /\ typeByName = EmptyDict
  /\ codeTypeByName = EmptyDict
  /\ chain \in {<<>>, <<StaleRule>>}
  /\ log = <<>>
  /\ out = <<>>
  /\ types = <<>>
  /\ codes = <<>>
  /\ k = 0
  /\ err = "none"

Fail(e) == pc' = "failed" /\ err' = e

\* iptables -p icmp -h succeeds; the text after the marker is kept and split
Help ==
  /\ pc = "start"
  /\ \E body \in HelpTexts :
       LET text == Usage \o Marker \o body
           p == PyFind(text, Marker, 0)
       IN  /\ buf' = PySliceFrom(text, p + 18)
           /\ lines' = PySplitLines(PyStrip(buf'))
  /\ pc' = "line"
  /\ UNCHANGED <<i, curTypeName, curTypeVal, alias, probeArg, mode, typeByName,
                 codeTypeByName, chain, log, out, types, codes, k, err>>

\* iptables -p icmp -h exits non-zero
HelpFails ==
  /\ pc = "start"
  /\ Fail("CalledProcessError")
  /\ UNCHANGED <<buf, lines, i, curTypeName, curTypeVal, alias, probeArg, mode,
                 typeByName, codeTypeByName, chain, log, out, types, codes, k>>

\* top of one iteration of the parse loop, up to the call of extract*
NextLine ==
  /\ pc = "line"
  /\ ~LoopFinished(i, lines)
  /\ LET line == lines[i] IN
       IF ~PyStartsWith(line, <<" ">>)
       THEN LET m == AliasMatch(line) IN
              /\ curTypeName' = m.name
              /\ alias' = m.alias
              /\ probeArg' = m.name
              /\ mode' = "type"
              /\ pc' = FirstProbeStep
              /\ err' = err
       ELSE IF curTypeName = None
       THEN /\ Fail("ValueError:orphan")
            /\ UNCHANGED <<curTypeName, alias, probeArg, mode>>
       ELSE /\ probeArg' = PyLStrip(line)
            /\ mode' = "code"
            /\ pc' = FirstProbeStep
            /\ UNCHANGED <<curTypeName, alias, err>>
  /\ UNCHANGED <<buf, lines, i, curTypeVal, typeByName, codeTypeByName, chain,
                 log, out, types, codes, k>>

\* history of the accesses to the FORWARD chain: the command, the line of the
\* help text being probed, the name passed, whether the command succeeded,
\* and for a listing whose rules the chain held
Logged(op, ok, seen) ==
  Append(log, [op |-> op, probe |-> i, arg |-> probeArg, ok |-> ok,
               seen |-> seen])

ChainOwners(c) == [j \in 1..Len(c) |-> c[j].by]

Flush ==
  /\ pc = "flush"
  /\ \/ /\ chain' = FlushChain(chain)
        /\ log' = Logged("flush", TRUE, <<>>)
        /\ pc' = "append"
        /\ err' = err
     \/ /\ log' = Logged("flush", FALSE, <<>>)
        /\ Fail("CalledProcessError")
        /\ chain' = chain
  /\ UNCHANGED <<buf, lines, i, curTypeName, curTypeVal, alias, probeArg, mode,
                 typeByName, codeTypeByName, out, types, codes, k>>

AppendProbe ==
  /\ pc = "append"
  /\ \/ \E text \in RuleTexts :
          /\ chain' = AppendRule(chain, [by |-> i, text |-> text])
          /\ log' = Logged("append", TRUE, <<>>)
          /\ pc' = "list"
          /\ err' = err
     \/ /\ log' = Logged("append", FALSE, <<>>)
        /\ Fail("CalledProcessError")
        /\ chain' = chain
  /\ UNCHANGED <<buf, lines, i, curTypeName, curTypeVal, alias, probeArg, mode,
                 typeByName, codeTypeByName, out, types, codes, k>>

\* iptables -nL, the scan of its output, and the rest of the loop body
List ==
  /\ pc = "list"
  /\ chain' = chain
  /\ \/ /\ log' = Logged("list", FALSE, ChainOwners(chain))
        /\ Fail("CalledProcessError")
        /\ UNCHANGED <<i, curTypeVal, typeByName, codeTypeByName>>
     \/ /\ log' = Logged("list", TRUE, ChainOwners(chain))
        /\ IF mode = "type"
           THEN LET r == ExtractTypeParse(ListingText(chain)) IN
                  IF ~r.ok
                  THEN /\ Fail("ValueError:int")
                       /\ UNCHANGED <<i, curTypeVal, typeByName, codeTypeByName>>
                  ELSE /\ typeByName' = RecordType(typeByName, curTypeName, alias, r.v)
                       /\ curTypeVal' = Some(r.v)
                       /\ i' = i + 1
                       /\ pc' = "line"
                       /\ UNCHANGED <<codeTypeByName, err>>
           ELSE LET r == ExtractCodeParse(ListingText(chain)) IN
                  IF ~r.ok
                  THEN /\ Fail("ValueError:int")
                       /\ UNCHANGED <<i, curTypeVal, typeByName, codeTypeByName>>
                  ELSE IF Some(r.t) # curTypeVal
                  THEN /\ Fail(MismatchRaise(r.t, probeArg, curTypeName))
                       /\ UNCHANGED <<i, curTypeVal, typeByName, codeTypeByName>>
                  ELSE /\ codeTypeByName' = DictSet(codeTypeByName, probeArg, <<r.t, r.c>>)
                       /\ i' = i + 1
                       /\ pc' = "line"
                       /\ UNCHANGED <<curTypeVal, typeByName, err>>
  /\ UNCHANGED <<buf, lines, curTypeName, alias, probeArg, mode, out, types,
                 codes, k>>

\* the loop is over: the four header lines, then the two sorted lists
WriteHeader ==
  /\ pc = "line"
  /\ LoopFinished(i, lines)
  /\ out' = out \o HeaderLines
  /\ types' = BuildTypes(typeByName)
  /\ codes' = BuildCodes(codeTypeByName)
  /\ pc' = "merge"
  /\ UNCHANGED <<buf, lines, i, curTypeName, curTypeVal, alias, probeArg, mode,
                 typeByName, codeTypeByName, chain, log, k, err>>

\* one iteration of: while types and codes
Merge ==
  /\ pc = "merge"
  /\ types # <<>> /\ codes # <<>>
  /\ IF TakeType(types[1][1], codes[1][1])
     THEN /\ out' = Append(out, TypeLine(types[1]))
          /\ types' = Rest(types)
          /\ codes' = codes
     ELSE /\ out' = Append(out, CodeLine(codes[1]))
          /\ codes' = Rest(codes)
          /\ types' = types
  /\ UNCHANGED <<pc, buf, lines, i, curTypeName, curTypeVal, alias, probeArg,
                 mode, typeByName, codeTypeByName, chain, log, k, err>>

MergeDone ==
  /\ pc = "merge"
  /\ types = <<>> \/ codes = <<>>
  /\ pc' = "drainTypes"
  /\ k' = 1
  /\ UNCHANGED <<buf, lines, i, curTypeName, curTypeVal, alias, probeArg, mode,
                 typeByName, codeTypeByName, chain, log, out, types, codes, err>>

\* one iteration of: for typeVal, typeName in types
DrainType ==
  /\ pc = "drainTypes"
  /\ k <= Len(types)
  /\ out' = Append(out, TypeLine(types[k]))
  /\ k' = k + 1
  /\ UNCHANGED <<pc, buf, lines, i, curTypeName, curTypeVal, alias, probeArg,
                 mode, typeByName, codeTypeByName, chain, log, types, codes, err>>

DrainTypesDone ==
  /\ pc = "drainTypes"
  /\ k > Len(types)
  /\ pc' = "drainCodes"
  /\ k' = 1
  /\ UNCHANGED <<buf, lines, i, curTypeName, curTypeVal, alias, probeArg, mode,
                 typeByName, codeTypeByName, chain, log, out, types, codes, err>>

\* one iteration of: for typeVal, codeVal, codeName in codes
DrainCode ==
  /\ pc = "drainCodes"
  /\ k <= Len(codes)
  /\ out' = Append(out, CodeLine(codes[k]))
  /\ k' = k + 1
  /\ UNCHANGED <<pc, buf, lines, i, curTypeName, curTypeVal, alias, probeArg,
                 mode, typeByName, codeTypeByName, chain, log, types, codes, err>>

\* sys.exit(0)
Exit ==
  /\ pc = "drainCodes"
  /\ k > Len(codes)
  /\ pc' = "done"
  /\ UNCHANGED <<buf, lines, i, curTypeName, curTypeVal, alias, probeArg, mode,
                 typeByName, codeTypeByName, chain, log, out, types, codes, k,
                 err>>

Next ==
  \/ Help
  \/ HelpFails
  \/ NextLine
  \/ Flush
  \/ AppendProbe
  \/ List
  \/ WriteHeader
  \/ Merge
  \/ MergeDone
  \/ DrainType
  \/ DrainTypesDone
  \/ DrainCode
  \/ Exit

Spec == Init /\ [][Next]_vars

(* ------------------------- derived quantities -------------------------- *)
Indented(l) == l # <<>> /\ l[1] \in Whitespace

TypeLineIdx(n) == {j \in 1..Min(n, Len(lines)) : ~PyStartsWith(lines[j], <<" ">>)}

CodeLineIdx(n) == {j \in 1..Min(n, Len(lines)) : PyStartsWith(lines[j], <<" ">>)}

HasAlias(j) == AliasMatch(lines[j]).matched

CanonicalOf(j) == AliasMatch(lines[j]).name

AliasOf(j) == AliasMatch(lines[j]).alias

NamesDeclaredBy(j) ==
  IF HasAlias(j) THEN {CanonicalOf(j), AliasOf(j)} ELSE {CanonicalOf(j)}

TypeNamesUpTo(n) == UNION {NamesDeclaredBy(j) : j \in TypeLineIdx(n)}

CodeNamesUpTo(n) == {PyLStrip(lines[j]) : j \in CodeLineIdx(n)}

RECURSIVE SumOver(_, _)
SumOver(S, f) ==
  IF S = {} THEN 0
  ELSE LET x == CHOOSE y \in S : TRUE IN f[x] + SumOver(S \ {x}, f)

\* type names resolved, every canonical name and alias counted per declaration
DeclarationCount ==
  SumOver(TypeLineIdx(Len(lines)),
          [j \in TypeLineIdx(Len(lines)) |-> IF HasAlias(j) THEN 2 ELSE 1])

OutIdx(kind) == {j \in 1..Len(out) : out[j].kind = kind}

OutIdxOf(kind, name) == {j \in OutIdx(kind) : out[j].name = name}

Terminated == pc \in {"done", "failed"}

LastAccess == log[Len(log)]

ProbeRules == {j \in 1..Len(chain) : chain[j].by >= 1}

Appended == {j \in 1..Len(log) : log[j].op = "append" /\ log[j].ok}

\* the probe of the last append that succeeded, 0 when there is none
LastAppended ==
  IF Appended = {} THEN 0
  ELSE log[CHOOSE j \in Appended : \A h \in Appended : h <= j].probe

(* ------------------------------- claims -------------------------------- *)

\* C1 (as stated): in a completed run the number of ICMP_TYPE lines equals
\* the number of type names resolved, each canonical name and each alias
\* counted once per declaration, and the number of ICMP_TYPE_CODE lines
\* equals the number of code-name lines resolved.
C1_CountPerDeclaration ==
  pc = "done" =>
    /\ Cardinality(OutIdx("type")) = DeclarationCount
    /\ Cardinality(OutIdx("code")) = Cardinality(CodeLineIdx(Len(lines)))

\* C1 (amended): in a completed run the number of ICMP_TYPE lines equals the
\* number of distinct type names resolved (canonical names and aliases), the
\* number of ICMP_TYPE_CODE lines equals the number of distinct code names
\* resolved, and every resolved name is emitted exactly once by the merge
\* loop and the two drain loops, nothing else being emitted.
C1_CountPerName ==
  pc = "done" =>
    /\ Cardinality(OutIdx("type")) = Cardinality(TypeNamesUpTo(Len(lines)))
    /\ Cardinality(OutIdx("code")) = Cardinality(CodeNamesUpTo(Len(lines)))
    /\ \A n \in TypeNamesUpTo(Len(lines)) : Cardinality(OutIdxOf("type", n)) = 1
    /\ \A n \in CodeNamesUpTo(Len(lines)) : Cardinality(OutIdxOf("code", n)) = 1
    /\ \A j \in OutIdx("type") : out[j].name \in TypeNamesUpTo(Len(lines))
    /\ \A j \in OutIdx("code") : out[j].name \in CodeNamesUpTo(Len(lines))

\* a completed run in which a type name was declared twice and types and
\* codes were both emitted
C1_Witness ==
  /\ pc = "done"
  /\ DeclarationCount > Cardinality(TypeNamesUpTo(Len(lines)))
  /\ Cardinality(OutIdx("type")) >= 2
  /\ Cardinality(OutIdx("code")) >= 1

\* C2: a failed run has written nothing to standard output, and whenever
\* something has been written every line of the help text has been probed
\* and its names recorded.
C2_AllOrNothing ==
  /\ pc = "failed" => out = <<>>
  /\ out # <<>> =>
       /\ i > Len(lines)
       /\ pc # "failed"
       /\ TypeNamesUpTo(Len(lines)) = DOMAIN typeByName
       /\ CodeNamesUpTo(Len(lines)) = DOMAIN codeTypeByName
       /\ Cardinality({j \in 1..Len(log) : log[j].op = "list" /\ log[j].ok})
            = Len(lines)

\* a run that failed on the type/code check after names had been resolved
C2_Witness ==
  /\ pc = "failed"
  /\ err \in {"TypeError", "ValueError:mismatch"}
  /\ DOMAIN typeByName # {}
  /\ DOMAIN codeTypeByName # {}
  /\ out = <<>>

\* the listing just read for a code name reports another type than the one
\* resolved for the enclosing type declaration
CodeTypeDisagrees ==
  /\ mode = "code"
  /\ log # <<>>
  /\ LastAccess.op = "list" /\ LastAccess.ok /\ LastAccess.probe = i
  /\ LET r == ExtractCodeParse(ListingText(chain))
     IN  r.ok /\ Some(r.t) # curTypeVal

\* C3: when the probe of a code name reports a type different from the
\* resolved type of the enclosing declaration, the run has aborted with the
\* type/code mismatch error, no entry was recorded for the probe, and nothing
\* is emitted.
C3_MismatchError ==
  CodeTypeDisagrees =>
    /\ pc = "failed"
    /\ err = "ValueError:mismatch"
    /\ DOMAIN codeTypeByName = CodeNamesUpTo(i - 1)
    /\ out = <<>>

\* C4: a help text whose first line is indented fails with the orphan-code
\* error before any probe and before any output.
C4_OrphanCode ==
  (pc # "start" /\ Indented(buf)) =>
    \/ pc = "line" /\ i = 1 /\ log = <<>> /\ out = <<>>
    \/ pc = "failed" /\ err = "ValueError:orphan" /\ log = <<>> /\ out = <<>>

\* C5: every line of the help text with leading whitespace is probed as a
\* code name, under its whitespace-trimmed content, and every code entry
\* recorded carries the type resolved for the nearest preceding declaration.
C5_CodeLines ==
  [][ /\ ( /\ pc = "line"
           /\ pc' # "line"
           /\ i <= Len(PySplitLines(buf))
           /\ Indented(PySplitLines(buf)[i]) )
        => ( /\ pc' \in {"flush", "failed"}
             /\ pc' = "flush" =>
                  /\ mode' = "code"
                  /\ probeArg' = PyStrip(PySplitLines(buf)[i]) )
      /\ codeTypeByName' # codeTypeByName
           => /\ Indented(PySplitLines(buf)[i])
              /\ probeArg \in DOMAIN codeTypeByName'
              /\ Some(codeTypeByName'[probeArg][1]) = curTypeVal
    ]_vars

\* a declaration with an alias that was processed before line n
AliasDeclsBefore(n) == {j \in TypeLineIdx(n - 1) : HasAlias(j)}

SameType(j) ==
  /\ CanonicalOf(j) \in DOMAIN typeByName
  /\ AliasOf(j) \in DOMAIN typeByName
  /\ typeByName[AliasOf(j)] = typeByName[CanonicalOf(j)]

SameEmitted(j) ==
  \E a \in OutIdxOf("type", CanonicalOf(j)) :
    \E b \in OutIdxOf("type", AliasOf(j)) : out[a].t = out[b].t

RedeclaredAfter(j, n) ==
  \E h \in TypeLineIdx(n - 1) :
    h > j /\ NamesDeclaredBy(h) \cap NamesDeclaredBy(j) # {}

\* C6 (as stated): for every declaration with an alias the canonical name and
\* the alias are recorded with the same type, and the emitted table of a
\* completed run gives both the same value, whatever else is declared.
C6_AliasAlways ==
  \A j \in AliasDeclsBefore(i) :
    /\ SameType(j)
    /\ pc = "done" => SameEmitted(j)

\* C6 (amended): the same, for every declaration with an alias neither of
\* whose two names is declared again by a later type declaration.
C6_AliasUnlessRedeclared ==
  \A j \in AliasDeclsBefore(i) :
    ~RedeclaredAfter(j, i) =>
      /\ SameType(j)
      /\ pc = "done" => SameEmitted(j)

\* a completed run where another type, with another value, is declared
\* before and after a declaration with an alias
C6_Witness ==
  /\ pc = "done"
  /\ Len(lines) >= 3
  /\ \E j \in AliasDeclsBefore(i) :
       /\ ~RedeclaredAfter(j, i)
       /\ \E h \in TypeLineIdx(j - 1) :
            typeByName[CanonicalOf(h)] # typeByName[CanonicalOf(j)]
       /\ \E h \in TypeLineIdx(Len(lines)) :
            h > j /\ typeByName[CanonicalOf(h)] # typeByName[CanonicalOf(j)]

TripleOp == <<"flush", "append", "list">>

ProbeNameOf(l) ==
  IF PyStartsWith(l, <<" ">>) THEN PyLStrip(l) ELSE AliasMatch(l).name

\* C7: the accesses to the chain are flush, append, list triples, one per
\* line of the help text in order and under that line's name; only the last
\* access can have failed and then the run is over; every listing finds in
\* the chain the one rule appended by its own probe.
C7_Triples ==
  /\ \A j \in 1..Len(log) :
       /\ log[j].op = TripleOp[((j - 1) % 3) + 1]
       /\ log[j].probe = ((j - 1) \div 3) + 1
       /\ log[j].probe <= Len(lines)
       /\ log[j].arg = ProbeNameOf(lines[log[j].probe])
       /\ j < Len(log) => log[j].ok
       /\ (log[j].op = "list") => log[j].seen = <<log[j].probe>>
  /\ (log # <<>> /\ ~LastAccess.ok) => pc = "failed"
  /\ pc = "failed" => Len(log) <= 3 * i
  /\ pc \in {"merge", "drainTypes", "drainCodes", "done"}
       => Len(log) = 3 * Len(lines)

\* a completed run of three probes, the third listing showing its own rule
C7_Witness ==
  /\ pc = "done"
  /\ Len(log) = 9
  /\ log[9].seen = <<3>>

Emitted(j) == out[j].kind \in {"type", "code"}

\* C8: the output is the merge of the two sorted lists: types ascending by
\* (type, name), codes ascending by (type, code, name), the type never
\* decreasing over the whole output, and a type line before every code line
\* of the same type.
C8_MergeOrder ==
  \A a \in 1..Len(out) : \A b \in 1..Len(out) :
    (a < b /\ Emitted(a) /\ Emitted(b)) =>
      /\ out[a].t <= out[b].t
      /\ (out[a].kind = "type" /\ out[b].kind = "type")
           => TypeLess(<<out[a].t, out[a].name>>, <<out[b].t, out[b].name>>)
      /\ (out[a].kind = "code" /\ out[b].kind = "code")
           => CodeLess(<<out[a].t, out[a].c, out[a].name>>,
                       <<out[b].t, out[b].c, out[b].name>>)
      /\ (out[a].kind = "code" /\ out[b].kind = "type")
           => out[a].t < out[b].t

\* a completed run that emitted a type, a code of the same type, and then a
\* type of a greater value
C8_Witness ==
  /\ pc = "done"
  /\ \E a \in OutIdx("type") : \E b \in OutIdx("code") : \E c \in OutIdx("type") :
       /\ a < b /\ b < c
       /\ out[a].t = out[b].t
       /\ out[b].t < out[c].t

\* the listing holds "icmptype ", and for the probe of a code name "code "
\* somewhere after it
HasMarkers(listing, codeProbe) ==
  LET p == PyFind(listing, IcmpType, 0)
  IN  /\ p # -1
      /\ codeProbe => PyFind(listing, CodeMark, p + 9) # -1

\* the last access read a listing without the expected marker text
MarkerlessListing ==
  /\ log # <<>>
  /\ LastAccess.op = "list" /\ LastAccess.ok
  /\ ~HasMarkers(ListingText(chain),
                 PyStartsWith(lines[LastAccess.probe], <<" ">>))

\* C9: once a listing without the expected marker text has been read, the
\* run has aborted with the error of the failed number parse, no entry was
\* recorded from that listing, no further probe is made and nothing is
\* emitted.
C9_ProbeFormat ==
  MarkerlessListing =>
    /\ pc = "failed"
    /\ err = "ValueError:int"
    /\ i = LastAccess.probe
    /\ DOMAIN typeByName = TypeNamesUpTo(i - 1)
    /\ DOMAIN codeTypeByName = CodeNamesUpTo(i - 1)
    /\ out = <<>>

\* the probe of a code name, after a type has been resolved, read a listing
\* that holds neither marker
C9_Witness ==
  /\ MarkerlessListing
  /\ PyFind(ListingText(chain), IcmpType, 0) = -1
  /\ PyStartsWith(lines[LastAccess.probe], <<" ">>)
  /\ DOMAIN typeByName # {}
  /\ pc = "failed"

\* C10 (as stated): when a run that accessed the chain terminates, the chain
\* holds no rule appended by a probe.
C10_FlushedAtExit ==
  (Terminated /\ log # <<>>) => ProbeRules = {}

\* C10 (amended): the chain is flushed only at the start of each probe, never
\* after the run: when the run terminates the chain holds at most one rule
\* appended by a probe, the rule of the last append that succeeded, and after
\* a completed run
\* that probed at least one name that rule is still installed.
C10_LastRuleStays ==
  Terminated =>
    /\ Cardinality(ProbeRules) <= 1
    /\ \A j \in ProbeRules : chain[j].by = LastAppended
    /\ (pc = "done" /\ Len(lines) >= 1)
         => Len(chain) = 1 /\ chain[1].by = Len(lines)

\* a completed run of two probes that leaves the rule of the second probe
C10_Witness ==
  /\ pc = "done"
  /\ Len(lines) = 2
  /\ Len(chain) = 1
  /\ chain[1].by = 2

====
